---- MODULE Spec2Model ----
(***************************************************************************)
(* Model of signalscharacterisation/FeaturesImplementations.py: the class  *)
(* FeaturesImplementations, a catalog of static feature functions taking   *)
(* (x, settings) and handing names, values, a function name and times to   *)
(* FeaturesCalcHelper.fill_results.                                        *)
(*                                                                         *)
(* Numbers.  A float is modelled by an exact fraction <<num, den>> in      *)
(* lowest terms with den >= 0; den = 0 carries the IEEE specials numpy     *)
(* produces on a division by zero: <<1,0>> is inf, <<-1,0>> is -inf and    *)
(* <<0,0>> is nan.  Rounding of the binary formats is not modelled.        *)
(* sqrt and log are injective, so a value sqrt(q) is carried by q and a    *)
(* value log(a)/log(n) by the pair <<a, n>>; the fields holding them say   *)
(* so in their names.                                                      *)
(***************************************************************************)
EXTENDS Integers, Sequences, FiniteSets, TLC

VARIABLES signal,          \* the caller's matrix x: a sequence of channels (rows)
          normalized_fft,  \* what calc_normalized_fft returns for transpose(signal)
          features_list,   \* FeaturesImplementations.features_list (class attribute)
          clock,           \* the reading of timeit.default_timer
          call             \* the last call: its locals and what it handed to fill_results

vars == <<signal, normalized_fft, features_list, clock, call>>

----------------------------------------------------------------------------
(* Bounds of the model *)

MaxChannels == 2
MaxValue == 1
MaxClock == 1
MaxWindow == 4
MaxEnergySamples == 4
MaxEnergyValue == 2
MaxDyadicSamples == 40
MaxAcfSamples == 4
MaxLags == 4
MaxAcfValue == 2
MaxHjorthSamples == 4
MaxHjorthValue == 1
MaxKatzSamples == 3
MaxKatzValue == 3
MaxScale == 3
MaxShift == 2
MaxPower == 1
MaxEdgeSamples == 3

----------------------------------------------------------------------------
(* Exact arithmetic standing for numpy's floats *)

Abs(n) == IF n < 0 THEN -n ELSE n

Sign(n) == IF n < 0 THEN -1 ELSE IF n = 0 THEN 0 ELSE 1

RECURSIVE GCD(_, _)
GCD(a, b) == IF b = 0 THEN a ELSE GCD(b, a % b)

Rat(n, d) ==
    IF d = 0 THEN <<Sign(n), 0>>
    ELSE LET s == IF d < 0 THEN -1 ELSE 1
             g == GCD(Abs(n), Abs(d))
         IN  <<(s * n) \div g, (s * d) \div g>>

RatInt(n) == <<n, 1>>

RatAdd(a, b) ==
    IF a[2] = 0 /\ b[2] = 0
    THEN (IF a = b THEN a ELSE <<0, 0>>)
    ELSE Rat(a[1] * b[2] + b[1] * a[2], a[2] * b[2])

RatSub(a, b) == RatAdd(a, <<-b[1], b[2]>>)

RatMul(a, b) == Rat(a[1] * b[1], a[2] * b[2])

RatDiv(a, b) == Rat(a[1] * b[2] * Sign(b[1]), a[2] * Abs(b[1]))

RatLess(a, b) == a[1] * b[2] < b[1] * a[2]

RECURSIVE RatSum(_)
RatSum(s) == IF s = <<>> THEN RatInt(0) ELSE RatAdd(s[1], RatSum(Tail(s)))

RECURSIVE SumSeq(_)
SumSeq(s) == IF s = <<>> THEN 0 ELSE s[1] + SumSeq(Tail(s))

SumSq(s) == SumSeq([i \in 1..Len(s) |-> s[i] * s[i]])

MaxOfSet(S) == CHOOSE v \in S : \A w \in S : w <= v

MinOfSet(S) == CHOOSE v \in S : \A w \in S : v <= w

----------------------------------------------------------------------------
(* numpy on matrices held as sequences of rows *)

NRows(x) == Len(x)

NCols(x) == IF x = <<>> THEN 0 ELSE Len(x[1])

Transpose(x) == [j \in 1..NCols(x) |-> [i \in 1..NRows(x) |-> x[i][j]]]

\* a transposition that would reshape its operand in place
np_transpose_inplace(a) == [result |-> Transpose(a), operand |-> Transpose(a)]

\* np.transpose(a): a new view; the operand keeps its shape and values
np_transpose(a) == [result |-> Transpose(a), operand |-> a]

\* np.diff(x, axis=1) of one row
np_diff(row) == [i \in 1..(Len(row) - 1) |-> row[i + 1] - row[i]]

\* np.var / np.nanvar of a flat list of integers (ddof = 0); nan when empty
np_var(s) == Rat(Len(s) * SumSq(s) - SumSeq(s) * SumSeq(s), Len(s) * Len(s))

np_mean(s) == Rat(SumSeq(s), Len(s))

RECURSIVE Flatten(_)
Flatten(x) == IF x = <<>> THEN <<>> ELSE x[1] \o Flatten(Tail(x))

\* range(start, stop, step) for step > 0
RECURSIVE RangeSeq(_, _, _)
RangeSeq(start, stop, step) ==
    IF start >= stop THEN <<>> ELSE <<start>> \o RangeSeq(start + step, stop, step)

----------------------------------------------------------------------------
(* timer(): each read returns the clock after it advanced by some tick     *)
(* >= 0; the clock never goes back and the model stops it at MaxClock.     *)

TickSeqs(k) ==
    {tk \in [1..k -> 0..(MaxClock - clock)] : clock + SumSeq(tk) <= MaxClock}

Reading(tk, i) == clock + SumSeq(SubSeq(tk, 1, i))

\* a helper of FeaturesCalcHelper whose code is not in this file: an
\* uninterpreted, deterministic function of its arguments
Helper(name, args) == [helper |-> name, args |-> args]

NoCall ==
    [function_name |-> "", settings |-> <<>>, names |-> <<>>, values |-> <<>>,
     time |-> <<>>, spans |-> <<>>, locals |-> <<>>, raised |-> ""]

\* the arguments of FeaturesCalcHelper.fill_results(names, values, function_name, time)
Record(fname, settings, names, values, time, spans, locals) ==
    [function_name |-> fname, settings |-> settings, names |-> names,
     values |-> values, time |-> time, spans |-> spans, locals |-> locals,
     raised |-> ""]

----------------------------------------------------------------------------
(* The catalog *)

\* the list with "h_jorth" written "hjorth"
features_list_misspelt ==
    <<"accumulated_energy", "moments_channels", "freq_bands_measures",
      "dyadic_spectrum_measures", "spectral_edge_freq", "correlation_channels_time",
      "correlation_channels_freq", "hjorth", "hjorth_fractal_dimension",
      "petrosian_fractal_dimension", "katz_fractal_dimension",
      "hurst_fractal_dimension", "detrended_fluctuation", "autocorrelation",
      "autoregression">>

\* lines 17-20
features_list_class_attribute ==
    <<"accumulated_energy", "moments_channels", "freq_bands_measures",
      "dyadic_spectrum_measures", "spectral_edge_freq", "correlation_channels_time",
      "correlation_channels_freq", "h_jorth", "hjorth_fractal_dimension",
      "petrosian_fractal_dimension", "katz_fractal_dimension",
      "hurst_fractal_dimension", "detrended_fluctuation", "autocorrelation",
      "autoregression">>

get_features_list ==
    /\ call = NoCall
    /\ call' = [NoCall EXCEPT !.function_name = "get_features_list",
                              !.values = features_list]
    /\ UNCHANGED <<signal, normalized_fft, features_list, clock>>

\* the calls are synchronous: the caller receives what a call returned (or the
\* exception it raised) before it makes the next call
caller_receives ==
    /\ call # NoCall
    /\ call' = NoCall
    /\ UNCHANGED <<signal, normalized_fft, features_list, clock>>

----------------------------------------------------------------------------
(* accumulated_energy *)

\* lines 45-49: the windows the loop visits, one variance per visited window,
\* the other columns of the zero-initialised array left at 0
energy_variances(row, window_size) ==
    LET starts == RangeSeq(0, Len(row) - window_size, window_size)
        ncols  == Len(row) \div window_size
    IN  [k \in 1..ncols |->
            IF k <= Len(starts)
            THEN np_var(SubSeq(row, starts[k] + 1, starts[k] + window_size))
            ELSE RatInt(0)]

accumulated_energy ==
    /\ call = NoCall
    /\ \E window_size \in 1..MaxWindow, tk \in TickSeqs(2) :
        LET total_time == Reading(tk, 2) - Reading(tk, 1)
            energy == [c \in 1..NRows(signal) |->
                          RatSum(energy_variances(signal[c], window_size))]
        IN  /\ call' = Record("accumulated_energy",
                              [energy_window_size |-> window_size],
                              <<"energy">>, <<energy>>, <<total_time>>,
                              <<<<Reading(tk, 1), Reading(tk, 2)>>>>, <<>>)
            /\ clock' = Reading(tk, 2)
            /\ UNCHANGED <<signal, normalized_fft, features_list>>

----------------------------------------------------------------------------
(* moments_channels *)

moments_channels ==
    /\ call = NoCall
    /\ \E tk \in TickSeqs(8) :
        LET mean_values == [c \in 1..NRows(signal) |-> np_mean(signal[c])]
            variance_values == [c \in 1..NRows(signal) |-> np_var(signal[c])]
            skewness_values == Helper("stats.skew", <<signal>>)
            kurtosis_values == Helper("stats.kurtosis", <<signal>>)
            spans == [i \in 1..4 |-> <<Reading(tk, 2 * i - 1), Reading(tk, 2 * i)>>]
        IN  /\ call' = Record("moments_channels", <<>>,
                              <<"mean", "variance", "skewness", "kurtosis">>,
                              <<mean_values, variance_values, skewness_values,
                                kurtosis_values>>,
                              [i \in 1..4 |-> spans[i][2] - spans[i][1]],
                              spans, <<>>)
            /\ clock' = Reading(tk, 8)
            /\ UNCHANGED <<signal, normalized_fft, features_list>>

----------------------------------------------------------------------------
(* freq_bands_measures *)

\* lines 101 and 137: -1 * np.sum(np.multiply(p, np.log(p)), axis=0) of a
\* spectrum the helper returned
shannon_entropy(power_spectrum) == Helper("neg_sum_p_log_p", <<power_spectrum>>)

freq_bands_measures ==
    /\ call = NoCall
    /\ \E sampling_freq \in {1, 256}, tk \in TickSeqs(4) :
        LET tr == np_transpose(signal)
            x == tr.result
            freq_levels == Helper("eeg_standard_freq_bands", <<>>)
            power_spectrum == Helper("calc_spectrum", <<x, freq_levels, sampling_freq>>)
            spans == [i \in 1..2 |-> <<Reading(tk, 2 * i - 1), Reading(tk, 2 * i)>>]
        IN  /\ call' = Record("freq_bands_measures",
                              [sampling_freq |-> sampling_freq],
                              <<"power spectrum", "shannon entropy">>,
                              <<power_spectrum, shannon_entropy(power_spectrum)>>,
                              [i \in 1..2 |-> spans[i][2] - spans[i][1]],
                              spans, [x |-> x])
            /\ signal' = tr.operand
            /\ clock' = Reading(tk, 4)
            /\ UNCHANGED <<normalized_fft, features_list>>

----------------------------------------------------------------------------
(* dyadic_spectrum_measures *)

\* int(np.floor(np.log2(d))) for d >= 1
RECURSIVE Log2Floor(_)
Log2Floor(d) == IF d < 2 THEN 0 ELSE 1 + Log2Floor(d \div 2)

\* lines 128-130: the values lvl_d takes, largest first
RECURSIVE Halvings(_, _)
Halvings(lvl_d, count) ==
    IF count = 0 THEN <<>> ELSE <<lvl_d>> \o Halvings(lvl_d \div 2, count - 1)

np_flipud(s) == [i \in 1..Len(s) |-> s[Len(s) + 1 - i]]

\* lines 123-130: the levels as the loop fills them, largest first
dyadic_levels_descending(n_samples, sampling_freq) ==
    LET lvl_d == n_samples \div 2
        n_lvls == Log2Floor(lvl_d)
        halves == Halvings(lvl_d, n_lvls + 1)
    IN  [i \in 1..(n_lvls + 1) |-> Rat(halves[i] * sampling_freq, n_samples)]

\* the levels without the flipud of line 132
dyadic_freq_levels_unflipped(n_samples, sampling_freq) ==
    dyadic_levels_descending(n_samples, sampling_freq)

\* lines 123-132
dyadic_freq_levels(n_samples, sampling_freq) ==
    np_flipud(dyadic_levels_descending(n_samples, sampling_freq))

dyadic_spectrum_measures ==
    /\ call = NoCall
    /\ \E sampling_freq \in {1, 256}, tk \in TickSeqs(6) :
        LET tr == np_transpose(signal)
            x == tr.result
            n_samples == NRows(x)
            settings == [sampling_freq |-> sampling_freq, corr_type |-> "pearson"]
        IN  /\ IF n_samples < 2
               THEN \* np.log2(0.0) is -inf and int(-inf) raises
                    /\ call' = [NoCall EXCEPT !.function_name = "dyadic_spectrum_measures",
                                              !.settings = settings,
                                              !.locals = [x |-> x],
                                              !.raised = "OverflowError"]
                    /\ clock' = clock
               ELSE LET levels == dyadic_freq_levels(n_samples, sampling_freq)
                        power_spectrum ==
                            Helper("calc_spectrum", <<x, levels, sampling_freq>>)
                        power_spec_corr ==
                            Helper("triu_1",
                                   <<Helper("calc_corr",
                                            <<Helper("transpose", <<power_spectrum>>)>>)>>)
                        spans == [i \in 1..3 |->
                                     <<Reading(tk, 2 * i - 1), Reading(tk, 2 * i)>>]
                    IN  /\ call' = Record("dyadic_spectrum_measures", settings,
                                          <<"power spectrum", "shannon entropy",
                                            "dyadic powers corr">>,
                                          <<power_spectrum,
                                            shannon_entropy(power_spectrum),
                                            power_spec_corr>>,
                                          [i \in 1..3 |-> spans[i][2] - spans[i][1]],
                                          spans,
                                          [x |-> x, dyadic_freq_levels |-> levels])
                        /\ clock' = Reading(tk, 6)
            /\ signal' = tr.operand
            /\ UNCHANGED <<normalized_fft, features_list>>

----------------------------------------------------------------------------
(* spectral_edge_freq *)

\* Python 3 round() of the fraction num/den, den > 0, num >= 0: to nearest, ties to even
RoundHalfEven(num, den) ==
    LET q == num \div den
        r == num % den
    IN  IF 2 * r < den THEN q
        ELSE IF 2 * r > den THEN q + 1
        ELSE IF q % 2 = 0 THEN q ELSE q + 1

\* np.cumsum(D[:topfreq, :], axis=0): A[i][c], rows clipped to those D has
np_cumsum_rows(D, topfreq) ==
    LET rows == IF topfreq < NRows(D) THEN topfreq ELSE NRows(D)
    IN  [i \in 1..rows |->
            [c \in 1..NCols(D) |-> SumSeq([j \in 1..i |-> D[j][c]])]]

\* lines 165-171, ppow = <<numerator, denominator>>
spedge_values(D, n_samples, sfreq, tfreq, ppow) ==
    LET topfreq == RoundHalfEven(n_samples * tfreq, sfreq) + 1
        A == np_cumsum_rows(D, topfreq)
        Amax == MaxOfSet({A[i][c] : i \in 1..NRows(A), c \in 1..NCols(A)})
        absB(i, c) == Abs(A[i][c] * ppow[2] - Amax * ppow[1])
        minB(c) == MinOfSet({absB(i, c) : i \in 1..NRows(A)})
    IN  [c \in 1..NCols(A) |->
            Rat((minB(c) - ppow[2]) * tfreq, ppow[2] * (topfreq - 1))]

SpectralEdgeSettings ==
    [sampling_freq : {1, 2}, spectral_edge_tfreq : {1, 2},
     spectral_edge_power_coef : {<<1, 2>>, <<9, 10>>}]

spectral_edge_freq ==
    /\ call = NoCall
    /\ \E settings \in SpectralEdgeSettings, tk \in TickSeqs(2) :
        LET tr == np_transpose(signal)
            x == tr.result
            n_samples == NRows(x)
            D == normalized_fft
            spedge == spedge_values(D, n_samples, settings.sampling_freq,
                                    settings.spectral_edge_tfreq,
                                    settings.spectral_edge_power_coef)
        IN  /\ call' = Record("spectral_edge_freq", settings,
                              <<"spectral edge freq">>, <<spedge>>,
                              <<Reading(tk, 2) - Reading(tk, 1)>>,
                              <<<<Reading(tk, 1), Reading(tk, 2)>>>>,
                              [x |-> x, D |-> D])
            /\ signal' = tr.operand
            /\ clock' = Reading(tk, 2)
            /\ UNCHANGED <<normalized_fft, features_list>>

----------------------------------------------------------------------------
(* correlation_channels_time, correlation_channels_freq *)

correlation_record(fname, first_name, matrix, tk, locals) ==
    LET channels_correlations == Helper("calc_corr", <<matrix>>)
        eigs == Helper("cal_eigens", <<channels_correlations>>)
        time == <<Reading(tk, 2) - Reading(tk, 1), Reading(tk, 4) - Reading(tk, 3)>>
    IN  Record(fname, <<>>, <<first_name, "lambda">>,
               <<Helper("triu_1", <<channels_correlations>>),
                 Helper("lambda", <<eigs>>)>>,
               <<time>>,
               <<<<Reading(tk, 1), Reading(tk, 2)>>, <<Reading(tk, 3), Reading(tk, 4)>>>>,
               locals)

correlation_channels_time ==
    /\ call = NoCall
    /\ \E tk \in TickSeqs(4) :
        /\ call' = correlation_record("correlation_channels_time",
                                      "correlation_channels", signal, tk, <<>>)
        /\ clock' = Reading(tk, 4)
        /\ UNCHANGED <<signal, normalized_fft, features_list>>

correlation_channels_freq ==
    /\ call = NoCall
    /\ \E tk \in TickSeqs(4) :
        LET tr == np_transpose(signal)
            d == np_transpose(normalized_fft).result
        IN  /\ call' = correlation_record("correlation_channels_freq",
                                          "correlation_channels_freq", d, tk,
                                          [x |-> tr.result])
            /\ signal' = tr.operand
            /\ clock' = Reading(tk, 4)
            /\ UNCHANGED <<normalized_fft, features_list>>

----------------------------------------------------------------------------
(* h_jorth.  np.nanstd is the square root of np.nanvar: a standard         *)
(* deviation ratio is carried by its square, the ratio of the variances.   *)

\* line 250, squared: np.nanstd(np.diff(x_in, axis=1)) has no axis and is the
\* deviation of all the differences of all the channels together
calc_mobility_sq(x_in) ==
    LET diffs == [c \in 1..NRows(x_in) |-> np_diff(x_in[c])]
    IN  [c \in 1..NRows(x_in) |-> RatDiv(np_var(Flatten(diffs)), np_var(x_in[c]))]

\* lines 247-259
h_jorth_values(x) ==
    LET activity == [c \in 1..NRows(x) |-> np_var(x[c])]
        mobility_sq == calc_mobility_sq(x)
        diff_x == [c \in 1..NRows(x) |-> np_diff(x[c])]
        complexity_sq == [c \in 1..NRows(x) |->
                             RatDiv(calc_mobility_sq(diff_x)[c], calc_mobility_sq(x)[c])]
    IN  <<activity, mobility_sq, complexity_sq>>

h_jorth ==
    /\ call = NoCall
    /\ \E tk \in TickSeqs(6) :
        LET \* lines 248, 254, 260: time[i] = t - timer()
            time == [i \in 1..3 |-> Reading(tk, 2 * i - 1) - Reading(tk, 2 * i)]
            t == Reading(tk, 5)
        IN  /\ call' = Record("h_jorth", <<>>,
                              <<"activity", "mobility", "complexity">>,
                              h_jorth_values(signal), <<t>>,
                              [i \in 1..3 |->
                                  <<Reading(tk, 2 * i - 1), Reading(tk, 2 * i)>>],
                              [time |-> time])
            /\ clock' = Reading(tk, 6)
            /\ UNCHANGED <<signal, normalized_fft, features_list>>

----------------------------------------------------------------------------
(* The fractal dimensions, detrended_fluctuation, autoregression *)

\* np.apply_along_axis(helper, 1, x, *args) for a helper of FeaturesCalcHelper
apply_helper_along_axis(name, x, args) ==
    [c \in 1..NRows(x) |-> Helper(name, <<x[c]>> \o args)]

one_span_record(fname, settings, name, values, tk, locals) ==
    Record(fname, settings, <<name>>, values,
           <<Reading(tk, 2) - Reading(tk, 1)>>,
           <<<<Reading(tk, 1), Reading(tk, 2)>>>>, locals)

hjorth_fractal_dimension ==
    /\ call = NoCall
    /\ \E k_max \in {2, 3}, tk \in TickSeqs(2) :
        /\ call' = one_span_record("hjorth_fractal_dimension",
                       [hjorth_fd_k_max |-> k_max], "h-jorth-FD",
                       apply_helper_along_axis("calc_hjorth_fractal_dimension",
                                               signal, <<k_max>>),
                       tk, <<>>)
        /\ clock' = Reading(tk, 2)
        /\ UNCHANGED <<signal, normalized_fft, features_list>>

petrosian_fractal_dimension ==
    /\ call = NoCall
    /\ \E tk \in TickSeqs(2) :
        /\ call' = one_span_record("petrosian_fractal_dimension", <<>>, "petrosian-FD",
                       apply_helper_along_axis("calc_petrosian_fractal_dimension",
                                               signal, <<>>),
                       tk, <<>>)
        /\ clock' = Reading(tk, 2)
        /\ UNCHANGED <<signal, normalized_fft, features_list>>

\* line 313: np.log(np.abs(x - x[0]).max()) / np.log(len(x)), carried by the
\* pair of the two arguments of log
get_kartz(x) ==
    [log_of |-> MaxOfSet({Abs(x[i] - x[1]) : i \in 1..Len(x)}), log_base |-> Len(x)]

katz_values(x) == [c \in 1..NRows(x) |-> get_kartz(x[c])]

katz_fractal_dimension ==
    /\ call = NoCall
    /\ \E tk \in TickSeqs(2) :
        /\ call' = one_span_record("katz_fractal_dimension", <<>>, "kartz-FD",
                                   katz_values(signal), tk, <<>>)
        /\ clock' = Reading(tk, 2)
        /\ UNCHANGED <<signal, normalized_fft, features_list>>

hurst_fractal_dimension ==
    /\ call = NoCall
    /\ \E tk \in TickSeqs(2) :
        /\ call' = one_span_record("hurst_fractal_dimension", <<>>, "hurst-FD",
                       apply_helper_along_axis("calc_hurst", signal, <<>>), tk, <<>>)
        /\ clock' = Reading(tk, 2)
        /\ UNCHANGED <<signal, normalized_fft, features_list>>

detrended_fluctuation ==
    /\ call = NoCall
    /\ \E overlap \in BOOLEAN, order \in {1}, tk \in TickSeqs(2) :
        LET n_samples == NCols(signal)
            nvals == Helper("calc_logarithmic_n", <<4, Rat(n_samples, 10), Rat(12, 10)>>)
            dfa_channels == 0
        IN  /\ call' = one_span_record("detrended_fluctuation",
                           [dfa_overlap |-> overlap, dfa_order |-> order],
                           "detrended_fluctuation", dfa_channels, tk,
                           [nvals |-> nvals])
            /\ clock' = Reading(tk, 2)
            /\ UNCHANGED <<signal, normalized_fft, features_list>>

autoregression ==
    /\ call = NoCall
    /\ \E autoreg_lag \in {1, 2}, tk \in TickSeqs(2) :
        /\ call' = one_span_record("autoregression", [autoreg_lag |-> autoreg_lag],
                       "autoregression",
                       apply_helper_along_axis("AR.fit.params", signal, <<autoreg_lag>>),
                       tk, <<>>)
        /\ clock' = Reading(tk, 2)
        /\ UNCHANGED <<signal, normalized_fft, features_list>>

----------------------------------------------------------------------------
(* autocorrelation: statsmodels' acf as line 369 calls it *)

\* acovf(x, unbiased, demean=True): entry k+1 is the lag-k sum of products of
\* the demeaned samples, over n - k when unbiased and over n otherwise
acovf(x, unbiased) ==
    LET n == Len(x)
        xo == [t \in 1..n |-> RatSub(RatInt(x[t]), np_mean(x))]
    IN  [k1 \in 1..n |->
            LET k == k1 - 1
                s == RatSum([t \in 1..(n - k) |-> RatMul(xo[t], xo[t + k])])
            IN  RatDiv(s, RatInt(IF unbiased THEN n - k ELSE n))]

\* acf as it would be with unbiased=True
acf_unbiased(x, unbiased, nlags) ==
    LET avf == acovf(x, TRUE)
        m == IF nlags + 1 < Len(avf) THEN nlags + 1 ELSE Len(avf)
    IN  [k1 \in 1..m |-> RatDiv(avf[k1], avf[1])]

\* acf(x, unbiased, nlags): avf[:nlags + 1] / avf[0]
acf(x, unbiased, nlags) ==
    LET avf == acovf(x, unbiased)
        m == IF nlags + 1 < Len(avf) THEN nlags + 1 ELSE Len(avf)
    IN  [k1 \in 1..m |-> RatDiv(avf[k1], avf[1])]

\* lines 369-370
autocorrs_values(x, nlags) ==
    [c \in 1..NRows(x) |-> Tail(acf(x[c], FALSE, nlags))]

autocorrelation ==
    /\ call = NoCall
    /\ \E nlags \in 1..MaxLags, tk \in TickSeqs(2) :
        /\ call' = one_span_record("autocorrelation", [autocorr_n_lags |-> nlags],
                                   "autocorrelation", autocorrs_values(signal, nlags),
                                   tk, <<>>)
        /\ clock' = Reading(tk, 2)
        /\ UNCHANGED <<signal, normalized_fft, features_list>>

----------------------------------------------------------------------------
(* Inputs *)

Rows(n, maxv) == [1..n -> 0..maxv]

Matrices(ms, ns, maxv) ==
    UNION {[1..m -> Rows(n, maxv)] : m \in ms, n \in ns}

\* what calc_normalized_fft may return for transpose(x): one row per sample, one
\* column per channel, no negative magnitude, and the spectrum of a channel all
\* zero exactly when the channel is
FftOutputs(x, maxp) ==
    {D \in [1..NCols(x) -> [1..NRows(x) -> 0..maxp]] :
        \A c \in 1..NRows(x) :
            (\A t \in 1..NCols(x) : x[c][t] = 0) <=> (\A t \in 1..NCols(x) : D[t][c] = 0)}

InitCommon ==
    /\ features_list = features_list_class_attribute
    /\ clock = 0
    /\ call = NoCall

\* the whole catalog: channels of two samples 0 or 1, and of the spectra those
\* in which every bin of a channel has the same magnitude
Init ==
    /\ signal \in Matrices(1..MaxChannels, {2}, 1)
    /\ normalized_fft \in
           {D \in FftOutputs(signal, MaxPower) :
               \A c \in 1..NRows(signal), t \in 1..NCols(signal) : D[t][c] = D[1][c]}
    /\ InitCommon

Next ==
    \/ caller_receives
    \/ get_features_list
    \/ accumulated_energy
    \/ moments_channels
    \/ freq_bands_measures
    \/ dyadic_spectrum_measures
    \/ spectral_edge_freq
    \/ correlation_channels_time
    \/ correlation_channels_freq
    \/ h_jorth
    \/ hjorth_fractal_dimension
    \/ petrosian_fractal_dimension
    \/ katz_fractal_dimension
    \/ hurst_fractal_dimension
    \/ detrended_fluctuation
    \/ autocorrelation
    \/ autoregression

Spec == Init /\ [][Next]_vars

InitEnergy ==
    /\ signal \in Matrices({1}, 1..MaxEnergySamples, MaxEnergyValue)
    /\ normalized_fft = Helper("calc_normalized_fft", <<Transpose(signal)>>)
    /\ InitCommon

NextEnergy == caller_receives \/ accumulated_energy \/ moments_channels

SpecEnergy == InitEnergy /\ [][NextEnergy]_vars

InitEdge ==
    /\ signal \in Matrices({2}, {MaxEdgeSamples}, MaxValue)
    /\ normalized_fft \in FftOutputs(signal, MaxPower)
    /\ InitCommon

NextEdge == caller_receives \/ spectral_edge_freq

SpecEdge == InitEdge /\ [][NextEdge]_vars

InitHjorth ==
    /\ signal \in Matrices({2}, 3..MaxHjorthSamples, MaxHjorthValue)
    /\ normalized_fft = Helper("calc_normalized_fft", <<Transpose(signal)>>)
    /\ InitCommon

NextHjorth == caller_receives \/ h_jorth

SpecHjorth == InitHjorth /\ [][NextHjorth]_vars

InitKatz ==
    /\ signal \in Matrices(1..2, 2..MaxKatzSamples, MaxKatzValue)
    /\ normalized_fft = Helper("calc_normalized_fft", <<Transpose(signal)>>)
    /\ InitCommon

NextKatz == caller_receives \/ katz_fractal_dimension

SpecKatz == InitKatz /\ [][NextKatz]_vars

InitAcf ==
    /\ signal \in Matrices({1}, 2..MaxAcfSamples, MaxAcfValue)
    /\ normalized_fft = Helper("calc_normalized_fft", <<Transpose(signal)>>)
    /\ InitCommon

NextAcf == caller_receives \/ autocorrelation

SpecAcf == InitAcf /\ [][NextAcf]_vars

\* the band edges read the shape of x alone: constant channels of every length
InitDyadic ==
    /\ signal \in {[c \in 1..1 |-> [t \in 1..n |-> v]] :
                      n \in (2..MaxDyadicSamples) \cup {1024}, v \in 0..MaxValue}
    /\ normalized_fft = Helper("calc_normalized_fft", <<Transpose(signal)>>)
    /\ InitCommon

NextDyadic == caller_receives \/ dyadic_spectrum_measures

SpecDyadic == InitDyadic /\ [][NextDyadic]_vars

----------------------------------------------------------------------------
(* The claims *)

Called(fname) == call.function_name = fname /\ call.raised = ""

\* the sum of the variances of all the floor(n/w) full windows of one channel
AllWindowsEnergy(row, w) ==
    RatSum([k \in 1..(Len(row) \div w) |-> np_var(SubSeq(row, (k - 1) * w + 1, k * w))])

\* C1: for 1 <= w <= n, accumulated_energy returns per channel the sum of the
\* variances of all floor(n/w) non-overlapping windows, the last full window
\* included; with w = n that is the channel's variance
C1_EnergySumsAllWindows ==
    (/\ call.function_name = "accumulated_energy"
     /\ call.settings.energy_window_size <= NCols(signal))
    => /\ call.raised = ""
       /\ \A c \in 1..NRows(signal) :
            /\ call.values[1][c] =
                   AllWindowsEnergy(signal[c], call.settings.energy_window_size)
            /\ call.settings.energy_window_size = NCols(signal)
               => call.values[1][c] = np_var(signal[c])

\* C2: with fewer samples than energy_window_size, accumulated_energy fails with
\* an InsufficientDataError and hands over no result record
C2_ShortSignalRaises ==
    (/\ call.function_name = "accumulated_energy"
     /\ NCols(signal) < call.settings.energy_window_size)
    => /\ call.raised = "InsufficientDataError"
       /\ call.values = <<>>

\* the bins of channel c whose cumulative power is closest to ppow times the
\* channel's own total cumulative power
ClosestBins(A, c, ppow) ==
    LET total == A[NRows(A)][c]
        dist(p) == Abs(A[p][c] * ppow[2] - total * ppow[1])
    IN  {p \in 1..NRows(A) : \A q \in 1..NRows(A) : dist(p) <= dist(q)}

\* C3: spectral_edge_freq returns, per channel, the position of the bin closest
\* to the channel's own ppow threshold, rescaled to a frequency (first bin 0,
\* bin topfreq at tfreq); stated for the channels that carry power
C3_EdgeIsRescaledBin ==
    Called("spectral_edge_freq")
    => LET st == call.settings
           topfreq == RoundHalfEven(NCols(signal) * st.spectral_edge_tfreq,
                                    st.sampling_freq) + 1
           A == np_cumsum_rows(call.locals.D, topfreq)
       IN  \A c \in 1..NRows(signal) :
              A[NRows(A)][c] > 0
              => \E p \in ClosestBins(A, c, st.spectral_edge_power_coef) :
                    call.values[1][c] = Rat((p - 1) * st.spectral_edge_tfreq, topfreq - 1)

\* std(diff(x_c))/std(x_c), squared, of each channel on its own
calc_mobility_sq_per_channel(x_in) ==
    [c \in 1..NRows(x_in) |-> RatDiv(np_var(np_diff(x_in[c])), np_var(x_in[c]))]

\* the signals that differ from x in the channels other than c only
OtherChannelsChanged(x, c, maxv) ==
    {y \in Matrices({NRows(x)}, {NCols(x)}, maxv) : y[c] = x[c]}

\* C4: h_jorth works per channel: mobility of c is std(diff(x_c))/std(x_c),
\* complexity of c is mobility(diff(x_c))/mobility(x_c), and no other channel's
\* samples change the three values of c; stated for the signals none of whose
\* channels or channel differences is constant
C4_HjorthPerChannel ==
    (/\ Called("h_jorth")
     /\ \A c \in 1..NRows(signal) :
           np_var(signal[c]) # <<0, 1>> /\ np_var(np_diff(signal[c])) # <<0, 1>>)
    => \A c \in 1..NRows(signal) :
          LET row == <<signal[c]>>
              mob == calc_mobility_sq_per_channel(row)[1]
              mobd == calc_mobility_sq_per_channel(<<np_diff(signal[c])>>)[1]
          IN  /\ call.values[2][c] = mob
              /\ call.values[3][c] = RatDiv(mobd, mob)
              /\ \A y \in OtherChannelsChanged(signal, c, MaxHjorthValue) :
                    \A k \in 1..3 : h_jorth_values(y)[k][c] = call.values[k][c]

Affine(x, a, b) == [c \in 1..NRows(x) |-> [t \in 1..NCols(x) |-> a * x[c][t] + b]]

\* C5: katz_fractal_dimension returns the same values for a*x + b as for x,
\* for every a > 0 and every b
C5_KatzAffineInvariant ==
    Called("katz_fractal_dimension")
    => \A a \in 1..MaxScale, b \in (-MaxShift)..MaxShift :
          katz_values(Affine(signal, a, b)) = call.values

\* n*n times the lag-k sum of products of the demeaned samples of one channel
LagSum(row, k) ==
    LET n == Len(row)
        T == SumSeq(row)
    IN  SumSeq([t \in 1..(n - k) |-> (n * row[t] - T) * (n * row[t + k] - T)])

\* C6 as stated: per channel exactly autocorr_n_lags values, the k-th the lag-k
\* sum normalised by n - k (relative to lag 0), lag 0 dropped
C6_UnbiasedLags ==
    Called("autocorrelation")
    => \A c \in 1..NRows(signal) :
          LET n == NCols(signal)
              nlags == call.settings.autocorr_n_lags
          IN  /\ Len(call.values[c]) = nlags
              /\ \A k \in 1..nlags :
                    call.values[c][k] =
                        Rat(n * LagSum(signal[c], k), (n - k) * LagSum(signal[c], 0))

\* C6 amended: per channel the values are the biased estimates, the lag-k sum
\* normalised by n like lag 0, at lags 1..min(autocorr_n_lags, n-1): lag 0 is
\* dropped, the first value is lag 1, and there are exactly autocorr_n_lags of
\* them when autocorr_n_lags <= n-1
C6_BiasedLags ==
    Called("autocorrelation")
    => \A c \in 1..NRows(signal) :
          LET n == NCols(signal)
              nlags == call.settings.autocorr_n_lags
              count == IF nlags <= n - 1 THEN nlags ELSE n - 1
          IN  /\ Len(call.values[c]) = count
              /\ \A k \in 1..count :
                    call.values[c][k] = Rat(LagSum(signal[c], k), LagSum(signal[c], 0))

C6_Witness ==
    /\ Called("autocorrelation")
    /\ call.settings.autocorr_n_lags = 2
    /\ NCols(signal) = 4
    /\ call.values[1][1] # <<0, 1>>
    /\ call.values[1][1][2] # 0
    /\ call.values[1][2] # call.values[1][1]

RECURSIVE Pow2(_)
Pow2(e) == IF e = 0 THEN 1 ELSE 2 * Pow2(e - 1)

\* C7: for n >= 2 the dyadic band edges are floor(log2(n/2)) + 1 values,
\* strictly increasing, each floor(n/2) floor-halved some number of times and
\* multiplied by sampling_freq/n; the smallest is sampling_freq/n, the largest
\* floor(n/2)*sampling_freq/n, which is sampling_freq/2 for even n
\* (n = 1024, sampling_freq = 256: 10 edges ending at 128)
C7_DyadicEdges ==
    Called("dyadic_spectrum_measures")
    => LET lv == call.locals.dyadic_freq_levels
           n == NCols(signal)
           sf == call.settings.sampling_freq
           L == Len(lv)
       IN  /\ n >= 2
           /\ L >= 1 /\ Pow2(L) <= n /\ n < Pow2(L + 1)
           /\ \A i \in 1..(L - 1) : RatLess(lv[i], lv[i + 1])
           /\ \A i \in 1..L : /\ lv[i] = Rat(((n \div 2) \div Pow2(L - i)) * sf, n)
                              /\ (n \div 2) \div Pow2(L - i) >= 1
           /\ lv[1] = Rat(sf, n)
           /\ lv[L] = Rat((n \div 2) * sf, n)
           /\ n % 2 = 0 => lv[L] = Rat(sf, 2)
           /\ (n = 1024 /\ sf = 256) => (L = 10 /\ lv[L] = <<128, 1>>)

C7_Witness ==
    /\ Called("dyadic_spectrum_measures")
    /\ NCols(signal) = 1024
    /\ call.settings.sampling_freq = 256
    /\ Len(call.locals.dyadic_freq_levels) = 10

\* the feature functions the class defines (every static method but get_features_list)
FeatureFunctions ==
    {"accumulated_energy", "moments_channels", "freq_bands_measures",
     "dyadic_spectrum_measures", "spectral_edge_freq", "correlation_channels_time",
     "correlation_channels_freq", "h_jorth", "hjorth_fractal_dimension",
     "petrosian_fractal_dimension", "katz_fractal_dimension",
     "hurst_fractal_dimension", "detrended_fluctuation", "autocorrelation",
     "autoregression"}

\* C8: get_features_list() returns 15 distinct names, each the name of a feature
\* function of the catalog, and every feature function is in the list (those the
\* class defines, and whichever function a call has run)
C8_ListMatchesCatalog ==
    /\ call.function_name = "get_features_list"
       => LET l == call.values
          IN  /\ Len(l) = 15
              /\ \A i, j \in 1..Len(l) : l[i] = l[j] => i = j
              /\ \A i \in 1..Len(l) : l[i] \in FeatureFunctions
              /\ \A f \in FeatureFunctions : \E i \in 1..Len(l) : l[i] = f
    /\ call.function_name \notin {"", "get_features_list"}
       => /\ call.function_name \in FeatureFunctions
          /\ \E i \in 1..Len(features_list) : features_list[i] = call.function_name

C8_Witness ==
    /\ call.function_name = "get_features_list"
    /\ call.values = features_list
    /\ call.values[15] = "autoregression"

\* C9: no call changes the caller's signal matrix or the catalog's features list
C9_InputsUnchanged ==
    [][signal' = signal /\ features_list' = features_list]_vars

\* a transposing feature ran on a matrix that differs from its transpose
C9_Witness ==
    /\ call.function_name \in {"freq_bands_measures", "dyadic_spectrum_measures",
                               "spectral_edge_freq", "correlation_channels_freq"}
    /\ call.locals.x = Transpose(signal)
    /\ call.locals.x # signal

\* C10: every feature hands to its result record one time entry per sub-metric
\* name, each the elapsed duration (end reading minus start reading, never
\* negative) of that sub-metric's computation
C10_TimePerSubMetric ==
    (call.function_name \in FeatureFunctions /\ call.raised = "")
    => /\ Len(call.time) = Len(call.names)
       /\ Len(call.spans) = Len(call.names)
       /\ \A i \in 1..Len(call.names) :
             /\ call.time[i] = call.spans[i][2] - call.spans[i][1]
             /\ call.time[i] >= 0

====
